---- MODULE Spec2Model ----
(***************************************************************************)
(* Model of src/config.rs of cargo-compete: locating `compete.toml`,       *)
(* loading it (serde deserialization of the document into                  *)
(* CargoCompeteConfig, with eager compilation of the liquid templates and  *)
(* the report of unused keys), and CargoCompeteConfig::template.           *)
(*                                                                         *)
(* Conventions.  Option<T> is a sequence of length at most one: <<>> is    *)
(* None, <<v>> is Some(v).  Result<T, E> is a record with a field ok.      *)
(* A text that is rendered or filtered is a sequence of one-character      *)
(* strings.  A template source is a sequence of lexemes.                   *)
(* The({e(x) : x \in {d}}) is `let x = d; e(x)`: d is evaluated once.      *)
(***************************************************************************)
EXTENDS Integers, Sequences, FiniteSets, TLC

None == <<>>
Some(v) == <<v>>
IsSome(o) == Len(o) = 1
Unwrap(o) == o[1]

Ok(v) == [ok |-> TRUE, val |-> v]
Err(e) == [ok |-> FALSE, err |-> e]
\* Result<T, E> to Result<Option<T>, E>
OkSome(r) == IF r.ok THEN Ok(Some(r.val)) ELSE r

The(S) == CHOOSE v \in S : TRUE

(***************************************************************************)
(* Bounds of the model.                                                    *)
(***************************************************************************)
\* depth of the deepest directory the searches start from
MaxDepth == 2
\* longest `args` array of a `submit` table
MaxArgs == 2

(***************************************************************************)
(* Liquid templates (the part of the liquid crate the configuration uses). *)
(***************************************************************************)
\* lexemes of a template source
LOpen == [t |-> "open"]
LClose == [t |-> "close"]
LPipe == [t |-> "pipe"]
LId(name) == [t |-> "id", v |-> name]
LRaw(chars) == [t |-> "raw", v |-> chars]

\* the filters of ParserBuilder::with_stdlib() that the model renders
StdlibFilters == {"downcase"}
\* with_stdlib().filter(Kebabcase)
CustomFilters == StdlibFilters \cup {"kebabcase"}

\* the text of a lexeme that stands outside a tag
Spell(lx) ==
    CASE lx.t = "raw" -> lx.v
      [] lx.t = "close" -> <<"}", "}">>
      [] lx.t = "pipe" -> <<"|">>
      [] OTHER -> <<"i", "d">>

\* the filter chain after a variable: ( "|" id )* , starting at src[i]
RECURSIVE ParseFilters(_, _, _, _)
ParseFilters(src, i, filters, acc) ==
    IF i <= Len(src) /\ src[i].t = "pipe"
    THEN IF i + 1 <= Len(src) /\ src[i + 1].t = "id"
         THEN IF src[i + 1].v \in filters
              THEN ParseFilters(src, i + 2, filters, Append(acc, src[i + 1].v))
              ELSE Err("unknown filter")
         ELSE Err("expected a filter name")
    ELSE Ok([next |-> i, chain |-> acc])

\* Parser::parse: raw text and {{ variable | filter ... }} tags
RECURSIVE ParseFrom(_, _, _, _)
ParseFrom(src, i, filters, acc) ==
    IF i > Len(src) THEN Ok(acc)
    ELSE IF src[i].t = "open"
    THEN IF i + 1 <= Len(src) /\ src[i + 1].t = "id"
         THEN The({IF ~fs.ok THEN fs
                   ELSE IF fs.val.next <= Len(src) /\ src[fs.val.next].t = "close"
                   THEN ParseFrom(src, fs.val.next + 1, filters,
                                  Append(acc, [e |-> "var", name |-> src[i + 1].v,
                                               chain |-> fs.val.chain]))
                   ELSE Err("expected }}") :
                   fs \in {ParseFilters(src, i + 2, filters, <<>>)}})
         ELSE Err("expected a variable")
    ELSE ParseFrom(src, i + 1, filters, Append(acc, [e |-> "raw", v |-> Spell(src[i])]))

LiquidParse(src, filters) == ParseFrom(src, 1, filters, <<>>)

\* the characters of the model and their case
UpperChars == {"F", "B"}
ToLower(c) == CASE c = "F" -> "f" [] c = "B" -> "b" [] OTHER -> c
IsLowerChar(c) == c \in {"a", "b", "f", "o", "r", "z"}
IsWordChar(c) == c \in UpperChars \/ IsLowerChar(c)

Downcase(s) == [i \in 1..Len(s) |-> ToLower(s[i])]

\* heck's to_kebab_case: words are split at characters that are neither
\* letters nor digits and at lower-to-upper boundaries (and before the last
\* capital of a run of capitals that a lower-case letter follows); the words
\* are lower-cased and joined by "-"
KebabBoundary(s, i) ==
    /\ i > 1
    /\ \/ ~IsWordChar(s[i - 1])
       \/ /\ s[i] \in UpperChars
          /\ \/ IsLowerChar(s[i - 1])
             \/ s[i - 1] \in UpperChars /\ i < Len(s) /\ IsLowerChar(s[i + 1])

RECURSIVE KebabFrom(_, _, _)
KebabFrom(s, i, acc) ==
    IF i > Len(s) THEN acc
    ELSE IF ~IsWordChar(s[i]) THEN KebabFrom(s, i + 1, acc)
    ELSE KebabFrom(s, i + 1,
                   acc \o (IF acc # <<>> /\ KebabBoundary(s, i) THEN <<"-">> ELSE <<>>)
                       \o <<ToLower(s[i])>>)

\* lower-cased without the split into words
ToKebabCaseUnsplit(s) == Downcase(s)

ToKebabCase(s) == KebabFrom(s, 1, <<>>)

ApplyFilter(name, s) ==
    CASE name = "downcase" -> Downcase(s)
      [] name = "kebabcase" -> ToKebabCase(s)
      [] OTHER -> s

RECURSIVE ApplyChain(_, _, _)
ApplyChain(chain, i, s) ==
    IF i > Len(chain) THEN s ELSE ApplyChain(chain, i + 1, ApplyFilter(chain[i], s))

\* Template::render against a context (a function from names to texts)
RECURSIVE RenderFrom(_, _, _, _)
RenderFrom(tpl, i, ctx, acc) ==
    IF i > Len(tpl) THEN Ok(acc)
    ELSE IF tpl[i].e = "raw" THEN RenderFrom(tpl, i + 1, ctx, acc \o tpl[i].v)
    ELSE IF tpl[i].name \in DOMAIN ctx
    THEN RenderFrom(tpl, i + 1, ctx, acc \o ApplyChain(tpl[i].chain, 1, ctx[tpl[i].name]))
    ELSE Err("unknown variable")

Render(tpl, ctx) == RenderFrom(tpl, 1, ctx, <<>>)

(***************************************************************************)
(* Deserialization of the template-bearing strings.  A field read with     *)
(* deserialize_with is required: an absent key is a "missing field" error. *)
(***************************************************************************)
\* deserialize_liquid_template: String, then the stdlib parser
deserialize_liquid_template(field) ==
    IF field = None THEN Err("missing field")
    ELSE LiquidParse(Unwrap(field), StdlibFilters)

\* liquid_template_with_custom_filter: the stdlib parser plus `kebabcase`
liquid_template_with_custom_filter(text) == LiquidParse(text, CustomFilters)

deserialize_liquid_template_with_custom_filter(field) ==
    IF field = None THEN Err("missing field")
    ELSE liquid_template_with_custom_filter(Unwrap(field))

\* .iter().map(|s| parser.parse(s)).collect::<Result<_, _>>()
RECURSIVE ParseAll(_, _, _)
ParseAll(srcs, i, acc) ==
    IF i > Len(srcs) THEN Ok(acc)
    ELSE The({IF r.ok THEN ParseAll(srcs, i + 1, Append(acc, r.val)) ELSE r :
              r \in {LiquidParse(srcs[i], StdlibFilters)}})

deserialize_liquid_templates(field) ==
    IF field = None THEN Err("missing field") ELSE ParseAll(Unwrap(field), 1, <<>>)

\* str::parse::<toml_edit::Document>
ParseDocument(text) ==
    IF text = "not-toml" THEN Err("TOML parse error") ELSE Ok([document |-> text])

EmptyDocument == [document |-> ""]

(***************************************************************************)
(* `new.template` and its two internally tagged descriptors.               *)
(* A descriptor of the document is                                         *)
(*   [kind, content, path : Option, extra : BOOLEAN]                       *)
(* where extra tells whether the table has a key its variant does not name.*)
(***************************************************************************)
\* a struct variant { <field> } of an enum with tag = "kind"
TaggedVariant(tag, fieldName, field) ==
    IF field = None THEN Err("missing field")
    ELSE Ok([tag |-> tag, name |-> fieldName, value |-> Unwrap(field)])

\* enum CargoCompeteConfigNewTemplateDependencies, tag = "kind"
DeserDependencies(d) ==
    IF d.kind = None THEN Err("missing field kind")
    ELSE IF Unwrap(d.kind) = "inline" THEN TaggedVariant("Inline", "content", d.content)
    ELSE IF Unwrap(d.kind) = "manifest-file"
    THEN TaggedVariant("ManifestFile", "path", d.path)
    ELSE Err("unknown variant")

\* enum CargoCompeteConfigNewTemplateSrc, tag = "kind"
DeserSrc(d) ==
    IF d.kind = None THEN Err("missing field kind")
    ELSE IF Unwrap(d.kind) = "inline" THEN TaggedVariant("Inline", "content", d.content)
    ELSE IF Unwrap(d.kind) = "file" THEN TaggedVariant("File", "path", d.path)
    ELSE Err("unknown variant")

\* deserialize_option_from_str for `profile`
deserialize_option_from_str(field) ==
    IF field = None THEN Ok(None) ELSE OkSome(ParseDocument(Unwrap(field)))

\* struct CargoCompeteConfigNewTemplate
DeserNewTemplate(t) ==
    The({IF ~profile.ok THEN profile
         ELSE IF ~dependencies.ok THEN dependencies
         ELSE IF ~src.ok THEN src
         ELSE Ok([lockfile |-> t.lockfile, profile |-> profile.val,
                  dependencies |-> dependencies.val, src |-> src.val]) :
         profile \in {deserialize_option_from_str(t.profile)},
         dependencies \in {IF t.dependencies = None THEN Err("missing field")
                           ELSE DeserDependencies(Unwrap(t.dependencies))},
         src \in {IF t.src = None THEN Err("missing field")
                  ELSE DeserSrc(Unwrap(t.src))}})

\* template: Option<CargoCompeteConfigNewTemplate>
DeserOptNewTemplate(field) ==
    IF field = None THEN Ok(None) ELSE OkSome(DeserNewTemplate(Unwrap(field)))

(***************************************************************************)
(* `new`: impl Deserialize for CargoCompeteConfigNew.  A `new` table is    *)
(*   [kind, platform, path, url, template : Option, extra : BOOLEAN].      *)
(***************************************************************************)
\* deserialize_platform_kind_in_kebab_case
deserialize_platform_kind_in_kebab_case(field) ==
    IF field = None THEN Err("missing field platform")
    ELSE CASE Unwrap(field) = "atcoder" -> Ok("Atcoder")
           [] Unwrap(field) = "codeforces" -> Ok("Codeforces")
           [] Unwrap(field) = "yukicoder" -> Ok("Yukicoder")
           [] OTHER -> Err("unknown variant")

\* struct CargoCompete { platform, path, template }: other keys are ignored
DeserCargoCompete(b) ==
    The({IF ~platform.ok THEN platform
         ELSE IF ~path.ok THEN path
         ELSE IF ~template.ok THEN template
         ELSE Ok([tag |-> "CargoCompete", platform |-> platform.val,
                  path |-> path.val, template |-> template.val]) :
         platform \in {deserialize_platform_kind_in_kebab_case(b.platform)},
         path \in {deserialize_liquid_template_with_custom_filter(b.path)},
         template \in {DeserOptNewTemplate(b.template)}})

\* cargo_compete_tag / oj_api_tag
ExplicitTag(field, tag) ==
    IF field = None THEN Err("missing field kind")
    ELSE IF Unwrap(field) # tag THEN Err("") ELSE Ok(tag)

\* the fields of WithExplicitTag::OjApi { kind, url, path, template }
DeserOjApi(b) ==
    The({IF ~kind.ok THEN kind
         ELSE IF ~url.ok THEN url
         ELSE IF ~path.ok THEN path
         ELSE IF ~template.ok THEN template
         ELSE Ok([tag |-> "OjApi", url |-> url.val, path |-> path.val,
                  template |-> template.val]) :
         kind \in {ExplicitTag(b.kind, "oj-api")},
         url \in {deserialize_liquid_template_with_custom_filter(b.url)},
         path \in {deserialize_liquid_template_with_custom_filter(b.path)},
         template \in {DeserOptNewTemplate(b.template)}})

\* the legacy shape tried before the tagged ones
DeserNewLegacyFirst(b) ==
    The({IF legacy.ok THEN legacy ELSE IF oj.ok THEN oj ELSE legacy :
         legacy \in {DeserCargoCompete(b)}, oj \in {DeserOjApi(b)}})

\* the untagged enum WithExplicitTag, its variants tried in order, and the
\* match of lines 291-328.  A table never is the unit variant None;
\* CargoCompete is the tag "cargo-compete" and the flattened struct
\* CargoCompete; Other(value) takes any table, and value.try_into() reads
\* it as the struct CargoCompete.
DeserNew(b) ==
    The({IF ExplicitTag(b.kind, "cargo-compete").ok /\ legacy.ok THEN legacy
         ELSE IF oj.ok THEN oj
         ELSE legacy :
         legacy \in {DeserCargoCompete(b)}, oj \in {DeserOjApi(b)}})

\* impl Default for CargoCompeteConfigNew
DefaultNew == [tag |-> "None"]

(***************************************************************************)
(* `submit`: impl Deserialize for CargoCompeteConfigSubmit.  A `submit`    *)
(* table is [kind, path, args, language_id, transpile : Option,            *)
(* extra : BOOLEAN]; a `transpile` table is [kind, args, language_id :     *)
(* Option, extra : BOOLEAN].  rename_all on the enums renames the variants *)
(* only, so the key of the language identifier is `language_id`.           *)
(***************************************************************************)
\* CurrentForm::File { path, language_id }
SubmitFile(path, language_id) ==
    IF path.ok THEN Ok([tag |-> "File", path |-> path.val, language_id |-> language_id])
    ELSE path

\* { args, language_id } of CurrentForm::Command and DeprecatedSubmit::Command
SubmitCommand(tag, args, language_id) ==
    IF args.ok THEN Ok([tag |-> tag, args |-> args.val, language_id |-> language_id])
    ELSE args

DeserCurrentFormDenyingUnknown(b) ==
    IF b.kind = None THEN Err("missing field kind")
    ELSE IF b.extra THEN Err("unknown field")
    ELSE IF Unwrap(b.kind) = "file"
    THEN SubmitFile(deserialize_liquid_template(b.path), b.language_id)
    ELSE IF Unwrap(b.kind) = "command"
    THEN SubmitCommand("Command", deserialize_liquid_templates(b.args), b.language_id)
    ELSE Err("unknown variant")

\* enum CurrentForm, tag = "kind"
DeserCurrentForm(b) ==
    IF b.kind = None THEN Err("missing field kind")
    ELSE IF Unwrap(b.kind) = "file"
    THEN SubmitFile(deserialize_liquid_template(b.path), b.language_id)
    ELSE IF Unwrap(b.kind) = "command"
    THEN SubmitCommand("Command", deserialize_liquid_templates(b.args), b.language_id)
    ELSE Err("unknown variant")

\* the language identifier read beside `transpile`, not inside it
DeserDeprecatedOuterLanguage(b) ==
    IF b.transpile = None THEN Err("missing field transpile")
    ELSE IF Unwrap(b.transpile).kind # Some("command") THEN Err("unknown variant")
    ELSE SubmitCommand("DeprecatedTranspileCommand",
                       deserialize_liquid_templates(Unwrap(b.transpile).args),
                       b.language_id)

\* struct Deprecated { transpile: DeprecatedSubmit }, enum DeprecatedSubmit
DeserDeprecated(b) ==
    IF b.transpile = None THEN Err("missing field transpile")
    ELSE IF Unwrap(b.transpile).kind = None THEN Err("missing field kind")
    ELSE IF Unwrap(Unwrap(b.transpile).kind) # "command" THEN Err("unknown variant")
    ELSE SubmitCommand("DeprecatedTranspileCommand",
                       deserialize_liquid_templates(Unwrap(b.transpile).args),
                       Unwrap(b.transpile).language_id)

\* the untagged enum Repr: CurrentForm first, then Deprecated
DeserSubmit(b) ==
    The({IF current.ok THEN current
         ELSE IF deprecated.ok THEN deprecated
         ELSE Err("data did not match any variant of untagged enum Repr") :
         current \in {DeserCurrentForm(b)}, deprecated \in {DeserDeprecated(b)}})

\* the source of the default path template
DefaultSubmitPath == <<LOpen, LId("src_path"), LClose>>

DefaultSubmitDowncased ==
    [tag |-> "File",
     path |-> LiquidParse(<<LOpen, LId("src_path"), LPipe, LId("downcase"), LClose>>,
                          StdlibFilters).val,
     language_id |-> None]

\* impl Default for CargoCompeteConfigSubmit
DefaultSubmit ==
    [tag |-> "File",
     path |-> LiquidParse(DefaultSubmitPath, StdlibFilters).val,
     language_id |-> None]

(***************************************************************************)
(* `add`: impl Deserialize for CargoCompeteConfigAdd.  An `add` table is   *)
(* [url, bin_name, bin_alias, bin_src_path : Option].                      *)
(***************************************************************************)
DeserAdd(b) ==
    IF b.url = None \/ b.bin_name = None THEN Err("missing field")
    ELSE The({IF ~url.ok THEN url
              ELSE IF ~bin_name.ok THEN bin_name
              ELSE IF ~bin_alias.ok THEN bin_alias
              ELSE IF ~bin_src_path.ok THEN bin_src_path
              ELSE Ok([url |-> url.val, bin_name |-> bin_name.val,
                       bin_alias |-> bin_alias.val,
                       bin_src_path |-> bin_src_path.val]) :
              url \in {LiquidParse(Unwrap(b.url), StdlibFilters)},
              bin_name \in {LiquidParse(Unwrap(b.bin_name), StdlibFilters)},
              bin_alias \in {LiquidParse(IF b.bin_alias = None THEN Unwrap(b.bin_name)
                                         ELSE Unwrap(b.bin_alias), StdlibFilters)},
              bin_src_path \in
                  {IF b.bin_src_path = None THEN Ok(None)
                   ELSE OkSome(LiquidParse(Unwrap(b.bin_src_path), StdlibFilters))}})

(***************************************************************************)
(* The top-level `template` table: [src, new : Option], its `new` table    *)
(* being [edition : Option].                                               *)
(***************************************************************************)
\* deser_option_fromstr::<Edition>
deser_option_fromstr(field) ==
    IF field = None THEN Ok(None)
    ELSE CASE Unwrap(field) = "2015" -> Ok(Some("Edition2015"))
           [] Unwrap(field) = "2018" -> Ok(Some("Edition2018"))
           [] Unwrap(field) = "2021" -> Ok(Some("Edition2021"))
           [] OTHER -> Err("Matching variant not found")

\* struct CargoCompeteConfigTemplateNew, every field but edition defaulted
DeserTemplateNew(n) ==
    The({IF ~edition.ok THEN edition
         ELSE Ok([edition |-> edition.val, profile |-> EmptyDocument,
                  dependencies |-> EmptyDocument, dev_dependencies |-> EmptyDocument,
                  copy_files |-> {}]) :
         edition \in {deser_option_fromstr(n.edition)}})

\* struct CargoCompeteConfigTemplate
DeserTemplate(t) ==
    IF t.src = None THEN Err("missing field src")
    ELSE The({IF ~new.ok THEN new ELSE Ok([src |-> Unwrap(t.src), new |-> new.val]) :
              new \in {IF t.new = None THEN Ok(None)
                       ELSE OkSome(DeserTemplateNew(Unwrap(t.new)))}})

(***************************************************************************)
(* The document: [test_suite, template, new, add, submit : Option,         *)
(* extra : sequence of the top-level keys no field reads, in the order of  *)
(* the document].  #[derive(Deserialize)] struct CargoCompeteConfig.       *)
(***************************************************************************)
DeserConfig(doc) ==
    The({IF ~test_suite.ok THEN test_suite
         ELSE IF ~template.ok THEN template
         ELSE IF ~new.ok THEN new
         ELSE IF ~add.ok THEN add
         ELSE IF ~submit.ok THEN submit
         ELSE Ok([test_suite |-> test_suite.val, template |-> template.val,
                  new |-> new.val, add |-> add.val, submit |-> submit.val]) :
         test_suite \in {deserialize_liquid_template_with_custom_filter(doc.test_suite)},
         template \in {IF doc.template = None THEN Ok(None)
                       ELSE OkSome(DeserTemplate(Unwrap(doc.template)))},
         new \in {IF doc.new = None THEN Ok(DefaultNew) ELSE DeserNew(Unwrap(doc.new))},
         add \in {IF doc.add = None THEN Ok(None)
                  ELSE OkSome(DeserAdd(Unwrap(doc.add)))},
         submit \in {IF doc.submit = None THEN Ok(DefaultSubmit)
                     ELSE DeserSubmit(Unwrap(doc.submit))}})

(***************************************************************************)
(* The warning sink: Shell::warn returns a Result, which `load` and        *)
(* `template` propagate with `?`.  A shell is [accepts : BOOLEAN, out :    *)
(* the warnings written, calls : the number of calls of warn].             *)
(***************************************************************************)
ShellWarn(sh, message) ==
    IF sh.accepts
    THEN [ok |-> TRUE,
          shell |-> [sh EXCEPT !.out = Append(@, message), !.calls = @ + 1]]
    ELSE [ok |-> FALSE, shell |-> [sh EXCEPT !.calls = @ + 1]]

UnusedKeyWarning(key) == [msg |-> "unused key in compete.toml", key |-> key]
DeprecationWarning == [msg |-> "new.template is deprecated", key |-> ""]

\* for unused in &*unused { shell.warn(...)?; }
RECURSIVE WarnUnused(_, _, _)
WarnUnused(unused, i, sh) ==
    IF i > Len(unused) THEN [ok |-> TRUE, shell |-> sh]
    ELSE The({IF w.ok THEN WarnUnused(unused, i + 1, w.shell) ELSE w :
              w \in {ShellWarn(sh, UnusedKeyWarning(unused[i]))}})

\* the return of load, once the document is parsed and the warnings are sent
LoadResult(path, parsed, warned) ==
    [res |-> IF ~parsed.ok THEN Err([kind |-> "Toml", path |-> path])
             ELSE IF ~warned.ok THEN Err([kind |-> "Io", path |-> path])
             ELSE Ok(parsed.val),
     shell |-> warned.shell]

\* fn load.  The content of the file at path is [kind |-> "missing"],
\* [kind |-> "malformed"] (not TOML) or [kind |-> "document", doc |-> d].
load(path, content, sh) ==
    IF content.kind = "missing"
    THEN [res |-> Err([kind |-> "Read", path |-> path]), shell |-> sh]
    ELSE IF content.kind = "malformed"
    THEN [res |-> Err([kind |-> "Toml", path |-> path]), shell |-> sh]
    ELSE The({IF ~parsed.ok THEN LoadResult(path, parsed, [ok |-> TRUE, shell |-> sh])
              ELSE LoadResult(path, parsed, WarnUnused(content.doc.extra, 1, sh)) :
              parsed \in {DeserConfig(content.doc)}})

(***************************************************************************)
(* Paths.  A path is [abs : BOOLEAN, comps : its components, utf8 :        *)
(* whether it is valid UTF-8]; a leading "." component is the same-        *)
(* directory marker.  The file system is the set of the component          *)
(* sequences of the absolute paths that exist.                             *)
(***************************************************************************)
Path(abs, comps) == [abs |-> abs, comps |-> comps, utf8 |-> TRUE]

\* Path::join: an absolute argument replaces the receiver
Join(base, p) ==
    IF p.abs THEN p
    ELSE [abs |-> base.abs, comps |-> base.comps \o p.comps,
          utf8 |-> base.utf8 /\ p.utf8]

StripCurDirNever(p) == p

\* cli_opt_path.strip_prefix(".").unwrap_or(cli_opt_path)
StripCurDir(p) ==
    IF ~p.abs /\ p.comps # <<>> /\ Head(p.comps) = "."
    THEN [p EXCEPT !.comps = Tail(@)]
    ELSE p

Exists(fs, p) == p.comps \in fs

ConfigFileName == Path(FALSE, <<"compete.toml">>)

Parent(dir) == [dir EXCEPT !.comps = SubSeq(@, 1, Len(@) - 1)]

\* the search that prefers the farthest ancestor
RECURSIVE FindFarthest(_, _)
FindFarthest(dir, fs) ==
    The({IF IsSome(up) THEN up
         ELSE IF Exists(fs, Join(dir, ConfigFileName)) THEN Some(Join(dir, ConfigFileName))
         ELSE None :
         up \in {IF dir.comps = <<>> THEN None ELSE FindFarthest(Parent(dir), fs)}})

\* dir.ancestors().map(|p| p.join("compete.toml")).find(|p| p.exists())
RECURSIVE FindInAncestors(_, _)
FindInAncestors(dir, fs) ==
    IF Exists(fs, Join(dir, ConfigFileName)) THEN Some(Join(dir, ConfigFileName))
    ELSE IF dir.comps = <<>> THEN None
    ELSE FindInAncestors(Parent(dir), fs)

\* .with_context(|| "could not find compete.toml in {dir} or any parent ...")
FoundOr(found, dir) ==
    IF IsSome(found) THEN Ok(Unwrap(found)) ELSE Err([kind |-> "NotFound", root |-> dir])

\* let config_path = if let Some(cli_opt_path) = ... else ... (lines 52-66)
ConfigPath(cwd, cli_opt_path, fs) ==
    IF IsSome(cli_opt_path) THEN Ok(Join(cwd, StripCurDir(Unwrap(cli_opt_path))))
    ELSE FoundOr(FindInAncestors(cwd, fs), cwd)

\* config_path.to_str().map(Into::into).with_context(|| "non UTF-8 path")
ToUtf8(config_path, cwd) ==
    IF ~config_path.ok THEN config_path
    ELSE IF config_path.val.utf8 THEN config_path
    ELSE Err([kind |-> "NonUtf8", root |-> cwd])

\* fn locate
locate(cwd, cli_opt_path, fs) == ToUtf8(ConfigPath(cwd, cli_opt_path, fs), cwd)

\* the path load_for_package loads: the override of the package metadata
\* joined to the manifest directory, or the search from that directory
PackageConfigPath(manifest_dir, metadata, fs) ==
    IF ~metadata.ok THEN Err([kind |-> "Metadata", root |-> manifest_dir])
    ELSE IF IsSome(metadata.val) THEN Ok(Join(manifest_dir, Unwrap(metadata.val)))
    ELSE FoundOr(FindInAncestors(manifest_dir, fs), manifest_dir)

\* let config = load(&path, shell)?; Ok((config, path))
LoadAt(path, content, sh) ==
    The({IF ~l.res.ok THEN l
         ELSE [res |-> Ok([config |-> l.res.val, path |-> path]), shell |-> l.shell] :
         l \in {load(path, content, sh)}})

\* fn load_for_package
load_for_package(manifest_dir, metadata, fs, content, sh) ==
    The({IF ~path.ok THEN [res |-> path, shell |-> sh]
         ELSE LoadAt(path.val, content, sh) :
         path \in {PackageConfigPath(manifest_dir, metadata, fs)}})

(***************************************************************************)
(* CargoCompeteConfig::template.  The files it reads are its environment:  *)
(* [src_file : Option of the text of the file `src.path` names,            *)
(*  manifest : what the file `dependencies.path` names holds].             *)
(***************************************************************************)
\* CargoCompeteConfigNew::template
NewTemplate(new) == IF new.tag = "None" THEN None ELSE new.template

\* read(path)?.parse::<Document>()?.get("dependencies"), then as_table()
ManifestDependencies(manifest) ==
    CASE manifest = "unreadable" -> Err([kind |-> "Read"])
      [] manifest = "not-toml" -> Err([kind |-> "TomlEdit"])
      [] manifest = "no-dependencies" -> Ok(EmptyDocument)
      [] manifest = "dependencies-not-table" -> Err([kind |-> "NotATable"])
      [] OTHER -> Ok([document |-> "dependencies of the manifest"])

\* let src = match src { Inline { content } => ..., File { path } => read(path)? }
TranslateSrc(src, env) ==
    IF src.tag = "Inline" THEN Ok(src.value)
    ELSE IF IsSome(env.src_file) THEN Ok(Unwrap(env.src_file))
    ELSE Err([kind |-> "Read"])

\* let dependencies = match dependencies { Inline .. , ManifestFile .. }
TranslateDependencies(dependencies, env) ==
    IF dependencies.tag = "Inline"
    THEN IF ParseDocument(dependencies.value).ok THEN ParseDocument(dependencies.value)
         ELSE Err([kind |-> "DependenciesContent"])
    ELSE ManifestDependencies(env.manifest)

\* lockfile.map(|p| btreemap!(p => "Cargo.lock")).unwrap_or_default()
CopyFiles(lockfile) ==
    IF IsSome(lockfile) THEN {<<Unwrap(lockfile), "Cargo.lock">>} ELSE {}

\* the translation of new.template (lines 159-201)
Translate(nt, env) ==
    The({IF ~src.ok THEN src
         ELSE IF ~dependencies.ok THEN dependencies
         ELSE Ok([src |-> src.val,
                  new |-> Some([edition |-> None,
                                profile |-> IF IsSome(nt.profile) THEN Unwrap(nt.profile)
                                            ELSE EmptyDocument,
                                dependencies |-> dependencies.val,
                                dev_dependencies |-> EmptyDocument,
                                copy_files |-> CopyFiles(nt.lockfile)])]) :
         src \in {TranslateSrc(nt.src, env)},
         dependencies \in {TranslateDependencies(nt.dependencies, env)}})

\* the branch of template() for a legacy new.template
TemplateFromLegacy(nt, sh, env) ==
    The({IF ~w.ok THEN [res |-> Err([kind |-> "Io"]), shell |-> w.shell]
         ELSE [res |-> Translate(nt, env), shell |-> w.shell] :
         w \in {ShellWarn(sh, DeprecationWarning)}})

\* the legacy block preferred to the top-level one
templateLegacyFirst(config, config_path, sh, env) ==
    IF IsSome(NewTemplate(config.new))
    THEN TemplateFromLegacy(Unwrap(NewTemplate(config.new)), sh, env)
    ELSE IF IsSome(config.template)
    THEN [res |-> Ok(Unwrap(config.template)), shell |-> sh]
    ELSE [res |-> Err([kind |-> "MissingTemplate", path |-> config_path]),
          shell |-> sh]

\* fn template
template(config, config_path, sh, env) ==
    IF IsSome(config.template)
    THEN [res |-> Ok(Unwrap(config.template)), shell |-> sh]
    ELSE IF IsSome(NewTemplate(config.new))
    THEN TemplateFromLegacy(Unwrap(NewTemplate(config.new)), sh, env)
    ELSE [res |-> Err([kind |-> "MissingTemplate", path |-> config_path]),
          shell |-> sh]

(***************************************************************************)
(* The inputs the operations are run on.                                   *)
(***************************************************************************)
OptionOf(S) == {None} \cup {Some(v) : v \in S}

SrcVar == <<LOpen, LId("src_path"), LClose>>
SrcKebab == <<LOpen, LId("s"), LPipe, LId("kebabcase"), LClose>>
SrcBad == <<LOpen, LId("src_path")>>
Sources == {SrcVar, SrcKebab, SrcBad}
ArgLists == UNION {[1..n -> Sources] : n \in 0..MaxArgs}

Descriptors ==
    [kind : OptionOf({"inline", "manifest-file", "file"}),
     content : OptionOf({"text", "not-toml"}),
     path : OptionOf({"rel/path"}),
     extra : BOOLEAN]
InlineDescriptor ==
    [kind |-> Some("inline"), content |-> Some("text"), path |-> None, extra |-> FALSE]
PathDescriptor(kind) ==
    [kind |-> Some(kind), content |-> None, path |-> Some("rel/path"), extra |-> FALSE]

\* `new.template` tables: one descriptor varies while the other is well formed
NewTemplates ==
    [lockfile : OptionOf({"cargo-lock.toml"}),
     profile : OptionOf({"profile", "not-toml"}),
     dependencies : OptionOf(Descriptors),
     src : {Some(InlineDescriptor), Some(PathDescriptor("file"))}]
    \cup
    [lockfile : OptionOf({"cargo-lock.toml"}),
     profile : OptionOf({"profile", "not-toml"}),
     dependencies : {Some(InlineDescriptor), Some(PathDescriptor("manifest-file"))},
     src : OptionOf(Descriptors)]

LegacyTemplate ==
    [lockfile |-> Some("cargo-lock.toml"), profile |-> None,
     dependencies |-> Some(InlineDescriptor), src |-> Some(PathDescriptor("file"))]

\* `new` tables: the fields of the strategy vary, or `template` does
NewTables ==
    [kind : OptionOf({"cargo-compete", "oj-api", "bogus"}),
     platform : OptionOf({"atcoder", "AtCoder"}),
     path : OptionOf(Sources),
     url : OptionOf(Sources),
     template : {None, Some(LegacyTemplate)},
     extra : BOOLEAN]
    \cup
    [kind : {Some("cargo-compete")}, platform : {Some("yukicoder")},
     path : {Some(SrcKebab)}, url : {None},
     template : OptionOf(NewTemplates), extra : {FALSE}]

TranspileTables ==
    [kind : OptionOf({"command", "bogus"}),
     args : OptionOf(ArgLists),
     language_id : OptionOf({"5054"}),
     extra : BOOLEAN]

\* `submit` tables: the current form, and tables with a `transpile` table
SubmitTables ==
    [kind : OptionOf({"file", "command", "bogus"}),
     path : OptionOf(Sources),
     args : OptionOf(ArgLists),
     language_id : OptionOf({"5054"}),
     transpile : {None},
     extra : BOOLEAN]
    \cup
    [kind : OptionOf({"file", "command"}),
     path : {None, Some(SrcBad), Some(SrcKebab)},
     args : {None, Some(<<SrcVar>>)},
     language_id : {None},
     transpile : OptionOf(TranspileTables) \ {None},
     extra : {FALSE}]

AddTables ==
    [url : OptionOf(Sources), bin_name : OptionOf(Sources),
     bin_alias : OptionOf(Sources), bin_src_path : OptionOf(Sources)]

TemplateTables ==
    [src : OptionOf({"fn main() {}"}),
     new : OptionOf([edition : OptionOf({"2021", "2024"})])]

ExtraKeys == {<<>>, <<"foo">>, <<"foo", "bar">>, <<"bar", "foo">>}

BaseDocument ==
    [test_suite |-> Some(SrcKebab), template |-> None, new |-> None, add |-> None,
     submit |-> None, extra |-> <<>>]

\* documents in which the top-level keys vary
TopDocuments ==
    [test_suite : OptionOf(Sources),
     template : OptionOf(TemplateTables),
     new : {None, Some([kind |-> None, platform |-> Some("atcoder"),
                        path |-> Some(SrcVar), url |-> None,
                        template |-> Some(LegacyTemplate), extra |-> FALSE])},
     add : {None},
     submit : {None},
     extra : ExtraKeys]

\* documents in which one table varies
Documents ==
    TopDocuments
    \cup {[BaseDocument EXCEPT !.new = Some(n)] : n \in NewTables}
    \cup {[BaseDocument EXCEPT !.add = Some(a)] : a \in AddTables}
    \cup {[BaseDocument EXCEPT !.submit = Some(b), !.extra = x] :
            b \in SubmitTables, x \in {<<>>, <<"foo">>}}

Contents ==
    {[kind |-> "missing"], [kind |-> "malformed"]}
    \cup {[kind |-> "document", doc |-> d] : d \in Documents}

\* what load_for_package finds in the file it loads
PackageContents ==
    {[kind |-> "missing"], [kind |-> "malformed"]}
    \cup {[kind |-> "document", doc |-> d] :
            d \in {t \in TopDocuments : t.template = None /\ t.new = None}}

DirNames == <<"d1", "d2", "d3", "d4">>
\* the directories: a chain below the root, and a directory beside it
Directories ==
    {SubSeq(DirNames, 1, n) : n \in 0..MaxDepth} \cup {<<"other">>}
StartDirectories ==
    {[abs |-> TRUE, comps |-> d, utf8 |-> u] : d \in Directories, u \in BOOLEAN}
FileSystems == SUBSET {d \o <<"compete.toml">> : d \in Directories}

CliPaths ==
    {Path(FALSE, <<"x.toml">>), Path(FALSE, <<".", "x.toml">>), Path(FALSE, <<".">>),
     Path(FALSE, <<"compete.toml">>), Path(FALSE, <<".", "d1", "compete.toml">>),
     Path(TRUE, <<"etc", "x.toml">>)}

Metadata == {Err("metadata"), Ok(None), Ok(Some(Path(FALSE, <<"pkg.toml">>)))}

Environments ==
    [src_file : OptionOf({"text of the file"}),
     manifest : {"unreadable", "not-toml", "no-dependencies",
                 "dependencies-not-table", "dependencies-table"}]

LoadPath == Path(TRUE, <<"d1", "compete.toml">>)

\* the texts a context binds `s` to
RenderTexts ==
    {<<>>,
     <<"F", "o", "o", "B", "a", "r", "B", "a", "z">>,
     <<"f", "o", "o", "-", "b", "a", "r">>,
     <<"f", "o", "o", "_", "B", "a", "r">>,
     <<"F", "B", "a", "r">>,
     <<"F", "B">>,
     <<" ", "a", "B", " ">>}
\* object!({ "s": text })
Binding(text) == [name \in {"s"} |-> text]

(***************************************************************************)
(* The state: what one run of the tool passes to the functions of          *)
(* config.rs and what they return.                                         *)
(***************************************************************************)
VARIABLES
    pc,          \* "start", "located", "loaded", "failed" or "resolved"
    entry,       \* the function the run entered config.rs by
    cwd,         \* the directory a search starts from
    cli,         \* locate's cli_opt_path / the override of the package
    fs,          \* the file system
    configPath,  \* the local config_path / path: the Result of the search
    located,     \* the path returned
    content,     \* what the file that load reads holds
    shell,       \* the warning sink
    loaded,      \* the configuration returned
    env,         \* the files template() reads
    resolved,    \* what CargoCompeteConfig::template returned
    compiled,    \* the text given to liquid_template_with_custom_filter and
                 \* what it returned: [text, res]
    rendered     \* the renderings of compiled so far: a set of [s, out]

vars == <<pc, entry, cwd, cli, fs, configPath, located, content, shell, loaded, env,
          resolved, compiled, rendered>>

NotCalled == Err([kind |-> "NotCalled"])
NoContent == [kind |-> "none"]
NoEnvironment == [src_file |-> None, manifest |-> "unreadable"]
RootDirectory == [abs |-> TRUE, comps |-> <<>>, utf8 |-> TRUE]
Shells == {[accepts |-> a, out |-> <<>>, calls |-> 0] : a \in BOOLEAN}

Init ==
    /\ pc = "start"
    /\ entry = "none"
    /\ cwd = RootDirectory
    /\ cli = None
    /\ fs = {}
    /\ configPath = NotCalled
    /\ located = NotCalled
    /\ content = NoContent
    /\ shell \in Shells
    /\ loaded = NotCalled
    /\ env = NoEnvironment
    /\ resolved = NotCalled
    /\ compiled = [text |-> <<>>, res |-> NotCalled]
    /\ rendered = {}

\* locate(cwd, cli_opt_path)
Locate ==
    /\ pc = "start"
    /\ \E c \in StartDirectories, p \in OptionOf(CliPaths), f \in FileSystems :
        /\ cwd' = c
        /\ cli' = p
        /\ fs' = f
        /\ configPath' = ConfigPath(c, p, f)
        /\ located' = locate(c, p, f)
    /\ entry' = "locate"
    /\ pc' = "located"
    /\ UNCHANGED <<content, shell, loaded, env, resolved, compiled, rendered>>

\* load(path, shell)
Load ==
    /\ pc = "start"
    /\ \E c \in Contents :
        \E l \in {load(LoadPath, c, shell)} :
            /\ content' = c
            /\ loaded' = l.res
            /\ shell' = l.shell
            /\ pc' = IF l.res.ok THEN "loaded" ELSE "failed"
    /\ configPath' = Ok(LoadPath)
    /\ entry' = "load"
    /\ UNCHANGED <<cwd, cli, fs, located, env, resolved, compiled, rendered>>

\* load_for_package(package, shell)
LoadForPackage ==
    /\ pc = "start"
    /\ \E d \in {s \in StartDirectories : s.utf8}, m \in Metadata, f \in FileSystems,
          c \in PackageContents :
        \E l \in {load_for_package(d, m, f, c, shell)} :
            /\ cwd' = d
            /\ cli' = IF m.ok THEN m.val ELSE None
            /\ fs' = f
            /\ content' = c
            /\ configPath' = PackageConfigPath(d, m, f)
            /\ loaded' = IF l.res.ok THEN Ok(l.res.val.config) ELSE l.res
            /\ located' = IF l.res.ok THEN Ok(l.res.val.path) ELSE l.res
            /\ shell' = l.shell
            /\ pc' = IF l.res.ok THEN "loaded" ELSE "failed"
    /\ entry' = "load_for_package"
    /\ UNCHANGED <<env, resolved, compiled, rendered>>

\* the files config.template() may read
EnvironmentsOf(config) ==
    IF IsSome(config.template) \/ NewTemplate(config.new) = None
    THEN {NoEnvironment} ELSE Environments

\* config.template(config_path, shell), on a configuration that was loaded
Template ==
    /\ pc = "loaded"
    /\ \E e \in EnvironmentsOf(loaded.val) :
        \E t \in {template(loaded.val, configPath.val, shell, e)} :
            /\ env' = e
            /\ resolved' = t.res
            /\ shell' = t.shell
    /\ pc' = "resolved"
    /\ UNCHANGED <<entry, cwd, cli, fs, configPath, located, content, loaded, compiled,
                   rendered>>

\* liquid_template_with_custom_filter(text)
Compile ==
    /\ pc = "start"
    /\ \E text \in Sources :
        compiled' = [text |-> text, res |-> liquid_template_with_custom_filter(text)]
    /\ pc' = IF compiled'.res.ok THEN "compiled" ELSE "failed"
    /\ entry' = "liquid_template_with_custom_filter"
    /\ UNCHANGED <<cwd, cli, fs, configPath, located, content, shell, loaded, env,
                   resolved, rendered>>

\* template.render(&object!({ "s": text })), any number of times
RenderCompiled ==
    /\ pc = "compiled"
    /\ \E text \in RenderTexts :
        rendered' = rendered \cup {[s |-> text, out |-> Render(compiled.res.val, Binding(text))]}
    /\ UNCHANGED <<pc, entry, cwd, cli, fs, configPath, located, content, shell, loaded,
                   env, resolved, compiled>>

Next == Locate \/ Load \/ LoadForPackage \/ Template \/ Compile \/ RenderCompiled

Spec == Init /\ [][Next]_vars

(***************************************************************************)
(* Vocabulary of the properties.                                           *)
(***************************************************************************)
\* the document of the file that load or load_for_package read
FromDocument == content.kind = "document"
\* load deserialized the document: it returned it, or the sink failed after
Deserialized == loaded.ok \/ (~loaded.ok /\ loaded.err.kind = "Io")
\* the sources that are templates for the stdlib parser / with `kebabcase`
ValidStdlib == {SrcVar}
ValidCustom == {SrcVar, SrcKebab}
AllIn(args, S) == \A i \in 1..Len(args) : args[i] \in S
PresentIn(field, S) == field = None \/ Unwrap(field) \in S
\* the document has no other table than `new` (than `submit`), and nothing
\* else in it fails
OnlyNew(doc) == [doc EXCEPT !.new = None, !.extra = <<>>] = BaseDocument
OnlySubmit(doc) == [doc EXCEPT !.submit = None, !.extra = <<>>] = BaseDocument
\* a descriptor with a recognized kind and the field of that kind
WellFormedDescriptor(d, kinds) ==
    /\ IsSome(d.kind)
    /\ Unwrap(d.kind) \in kinds
    /\ IF Unwrap(d.kind) = "inline" THEN IsSome(d.content) ELSE IsSome(d.path)
WellFormedNewTemplate(t) ==
    /\ t.profile # Some("not-toml")
    /\ IsSome(t.dependencies)
    /\ WellFormedDescriptor(Unwrap(t.dependencies), {"inline", "manifest-file"})
    /\ IsSome(t.src)
    /\ WellFormedDescriptor(Unwrap(t.src), {"inline", "file"})
VariantOf(kind) ==
    CASE kind = "inline" -> "Inline"
      [] kind = "manifest-file" -> "ManifestFile"
      [] kind = "file" -> "File"
      [] kind = "command" -> "Command"
      [] kind = "oj-api" -> "OjApi"
      [] kind = "cargo-compete" -> "CargoCompete"
      [] OTHER -> "?"
PlatformKinds == {"atcoder", "codeforces", "yukicoder"}
\* texts bound to src_path
Texts == {<<>>, <<"F", "o", "o">>, <<"a", "-", "B">>, <<"z", "/", "F", "B", "a">>}
SrcPathIs(x) == [name \in {"src_path"} |-> x]

(***************************************************************************)
(* C1                                                                      *)
(***************************************************************************)
C1OjApi(b) ==
    /\ b.kind = Some("oj-api")
    /\ IsSome(b.url) /\ Unwrap(b.url) \in ValidCustom
    /\ IsSome(b.path) /\ Unwrap(b.path) \in ValidCustom
    /\ b.template = None \/ WellFormedNewTemplate(Unwrap(b.template))
C1Legacy(b) ==
    /\ b.kind = None
    /\ IsSome(b.platform) /\ Unwrap(b.platform) \in PlatformKinds
    /\ IsSome(b.path) /\ Unwrap(b.path) \in ValidCustom
    /\ b.template = None \/ WellFormedNewTemplate(Unwrap(b.template))

\* C1: a `new` table with kind = "oj-api" and valid `url` and `path`
\* templates (and a well-formed `template` table, if it has one)
\* deserializes to the OjApi variant, whether or not it also has a
\* `platform` key; a `new` table without `kind`, with a `platform` and a
\* valid `path`, deserializes to the CargoCompete variant.  The document
\* being otherwise valid, load deserializes it.
C1_NewVariantByKind ==
    (entry = "load" /\ FromDocument /\ IsSome(content.doc.new)) =>
        \A b \in {Unwrap(content.doc.new)} :
            /\ C1OjApi(b) =>
                /\ OnlyNew(content.doc) => Deserialized
                /\ loaded.ok => loaded.val.new.tag = "OjApi"
            /\ C1Legacy(b) =>
                /\ OnlyNew(content.doc) => Deserialized
                /\ loaded.ok => loaded.val.new.tag = "CargoCompete"

C1_Witness ==
    /\ entry = "load" /\ FromDocument /\ IsSome(content.doc.new)
    /\ C1OjApi(Unwrap(content.doc.new))
    /\ Unwrap(content.doc.new).platform = Some("atcoder")
    /\ loaded.ok
    /\ loaded.val.new.tag = "OjApi"

(***************************************************************************)
(* C2                                                                      *)
(***************************************************************************)
\* C2: whenever a `new` table that has a `kind` key is deserialized, the
\* kind is a recognized one and the variant is the one the kind names: a
\* table with kind = "oj-api" never becomes CargoCompete, and a table that
\* lacks the shape its kind selects is a failure.
C2_KindAlwaysDecides ==
    (entry = "load" /\ FromDocument /\ IsSome(content.doc.new) /\ loaded.ok) =>
        \A b \in {Unwrap(content.doc.new)} :
            IsSome(b.kind) =>
                /\ Unwrap(b.kind) \in {"oj-api", "cargo-compete"}
                /\ loaded.val.new.tag = VariantOf(Unwrap(b.kind))

(***************************************************************************)
(* C3                                                                      *)
(***************************************************************************)
\* the tables of the document that carry a recognized kind and a key that
\* is not of the shape of that kind
C3ExtraInNew(doc) ==
    /\ IsSome(doc.new)
    /\ PresentIn(Unwrap(doc.new).kind, {"oj-api", "cargo-compete"})
    /\ IsSome(Unwrap(doc.new).kind)
    /\ Unwrap(doc.new).extra
C3ExtraInSubmit(doc) ==
    /\ IsSome(doc.submit)
    /\ PresentIn(Unwrap(doc.submit).kind, {"file", "command"})
    /\ IsSome(Unwrap(doc.submit).kind)
    /\ Unwrap(doc.submit).extra
C3ExtraInDescriptor(field, kinds) ==
    /\ IsSome(field)
    /\ IsSome(Unwrap(field).kind)
    /\ Unwrap(Unwrap(field).kind) \in kinds
    /\ Unwrap(field).extra
C3ExtraInTemplate(doc) ==
    /\ IsSome(doc.new)
    /\ IsSome(Unwrap(doc.new).template)
    /\ \/ C3ExtraInDescriptor(Unwrap(Unwrap(doc.new).template).dependencies,
                              {"inline", "manifest-file"})
       \/ C3ExtraInDescriptor(Unwrap(Unwrap(doc.new).template).src, {"inline", "file"})

C3Submit(b) ==
    /\ IsSome(b.kind)
    /\ \/ Unwrap(b.kind) = "file" /\ IsSome(b.path) /\ Unwrap(b.path) \in ValidStdlib
       \/ Unwrap(b.kind) = "command" /\ IsSome(b.args) /\ AllIn(Unwrap(b.args), ValidStdlib)
C3New(b) ==
    /\ IsSome(b.kind)
    /\ \/ C1OjApi(b)
       \/ C1Legacy([b EXCEPT !.kind = None]) /\ Unwrap(b.kind) = "cargo-compete"

C4Warnings(unused) == [i \in 1..Len(unused) |-> UnusedKeyWarning(unused[i])]

\* C4: whatever the warning sink does, a document that deserializes makes
\* load return the configuration the document deserializes to, every
\* unused key having been passed to the sink once.
C4_ReportNeverFailsLoad ==
    (entry = "load" /\ FromDocument /\ DeserConfig(content.doc).ok) =>
        /\ loaded = Ok(DeserConfig(content.doc).val)
        /\ shell.calls = Len(content.doc.extra)
        /\ shell.accepts => shell.out = C4Warnings(content.doc.extra)

(***************************************************************************)
(* C5                                                                      *)
(***************************************************************************)
C5NewValid(b) == PresentIn(b.path, ValidCustom) /\ PresentIn(b.url, ValidCustom)
C5AddValid(b) ==
    /\ PresentIn(b.url, ValidStdlib) /\ PresentIn(b.bin_name, ValidStdlib)
    /\ PresentIn(b.bin_alias, ValidStdlib) /\ PresentIn(b.bin_src_path, ValidStdlib)
C5ArgsValid(args) == args = None \/ AllIn(Unwrap(args), ValidStdlib)
C5SubmitValid(b) ==
    /\ PresentIn(b.path, ValidStdlib)
    /\ C5ArgsValid(b.args)
    /\ b.transpile = None \/ C5ArgsValid(Unwrap(b.transpile).args)

\* C5: a document that load returns a configuration for has a valid
\* template in every template-bearing field it has: test-suite, new.path,
\* new.url, the four fields of add, submit.path, and the elements of
\* submit.args and of submit.transpile.args.
C5_InvalidTemplateFailsLoad ==
    (entry = "load" /\ FromDocument /\ loaded.ok) =>
        /\ PresentIn(content.doc.test_suite, ValidCustom)
        /\ content.doc.new = None \/ C5NewValid(Unwrap(content.doc.new))
        /\ content.doc.add = None \/ C5AddValid(Unwrap(content.doc.add))
        /\ content.doc.submit = None \/ C5SubmitValid(Unwrap(content.doc.submit))

(***************************************************************************)
(* C6                                                                      *)
(***************************************************************************)
\* C6: the configuration of a document without a `submit` key has the
\* File variant, no language identifier, and a path template that renders
\* to X in every context that binds src_path to X.
C6_DefaultSubmit ==
    (FromDocument /\ content.doc.submit = None /\ loaded.ok) =>
        /\ loaded.val.submit.tag = "File"
        /\ loaded.val.submit.language_id = None
        /\ \A x \in Texts : Render(loaded.val.submit.path, SrcPathIs(x)) = Ok(x)

C6_Witness ==
    /\ entry = "load" /\ FromDocument /\ content.doc.submit = None /\ loaded.ok
    /\ loaded.val.submit.tag = "File"
    /\ Render(loaded.val.submit.path, SrcPathIs(<<"F", "o", "o">>)) = Ok(<<"F", "o", "o">>)

(***************************************************************************)
(* C7                                                                      *)
(***************************************************************************)
\* the current-form table equivalent to a `transpile` table
C7CurrentForm(t) ==
    [kind |-> Some("command"), path |-> None, args |-> t.args,
     language_id |-> t.language_id, transpile |-> None, extra |-> FALSE]
\* a `submit` table of the legacy nested shape
C7Legacy(b) ==
    /\ b.kind = None
    /\ IsSome(b.transpile)
    /\ Unwrap(b.transpile).kind = Some("command")
C7SameCommand(deprecated, current) ==
    /\ deprecated.tag = "DeprecatedTranspileCommand"
    /\ current.tag = "Command"
    /\ deprecated.args = current.args
    /\ deprecated.language_id = current.language_id

\* C7: a `submit` table of the legacy nested shape (no kind, `transpile`
\* with kind = "command") deserializes exactly when the equivalent
\* current-form table does, to DeprecatedTranspileCommand with the args
\* and the language identifier of the Command the current form gives; and
\* DeprecatedTranspileCommand comes only from a table that has a
\* `transpile` table with kind = "command".
C7_DeprecatedEqualsCurrent ==
    (entry = "load" /\ FromDocument) =>
        /\ \A b \in {d \in {content.doc.submit} : IsSome(d) /\ C7Legacy(Unwrap(d))} :
            \A current \in {DeserSubmit(C7CurrentForm(Unwrap(Unwrap(b).transpile)))} :
                /\ OnlySubmit(content.doc) => (Deserialized <=> current.ok)
                /\ loaded.ok => current.ok /\ C7SameCommand(loaded.val.submit, current.val)
        /\ (loaded.ok /\ loaded.val.submit.tag = "DeprecatedTranspileCommand") =>
            /\ IsSome(content.doc.submit)
            /\ IsSome(Unwrap(content.doc.submit).transpile)
            /\ Unwrap(Unwrap(content.doc.submit).transpile).kind = Some("command")

C7_Witness ==
    /\ entry = "load" /\ FromDocument /\ IsSome(content.doc.submit)
    /\ C7Legacy(Unwrap(content.doc.submit))
    /\ Unwrap(Unwrap(content.doc.submit).transpile).language_id = Some("5054")
    /\ IsSome(Unwrap(Unwrap(content.doc.submit).transpile).args)
    /\ Len(Unwrap(Unwrap(Unwrap(content.doc.submit).transpile).args)) = 2
    /\ loaded.ok
    /\ loaded.val.submit.tag = "DeprecatedTranspileCommand"
    /\ loaded.val.submit.language_id = Some("5054")

(***************************************************************************)
(* C8                                                                      *)
(***************************************************************************)
\* the calls of Shell::warn that template() made: load made one for each
\* unused key
C8WarnCalls == shell.calls - Len(content.doc.extra)
C8SrcAvailable(nt) == nt.src.tag = "Inline" \/ IsSome(env.src_file)
C8DependenciesAvailable(nt) ==
    IF nt.dependencies.tag = "Inline" THEN nt.dependencies.value # "not-toml"
    ELSE env.manifest \in {"no-dependencies", "dependencies-table"}
C8Translated(nt, t) ==
    /\ t.src = (IF nt.src.tag = "Inline" THEN nt.src.value ELSE Unwrap(env.src_file))
    /\ IsSome(t.new)
    /\ Unwrap(t.new).edition = None
    /\ Unwrap(t.new).dev_dependencies = EmptyDocument
    /\ Unwrap(t.new).copy_files
         = (IF nt.lockfile = None THEN {} ELSE {<<Unwrap(nt.lockfile), "Cargo.lock">>})
    /\ Unwrap(t.new).profile
         = (IF nt.profile = None THEN EmptyDocument ELSE Unwrap(nt.profile))

\* C8: template() returns the top-level `template` table unchanged, with no
\* warning, when the configuration has one, whether or not it has a
\* new.template.  Otherwise, when it has a new.template, it calls the sink
\* once, with the deprecation warning, and returns the translation of
\* new.template (copy-files is the lockfile mapped to "Cargo.lock", or
\* empty without lockfile; edition unset; dev-dependencies empty), unless
\* the sink fails or a file or the dependencies cannot be read, which is
\* the error it returns.  Otherwise it fails with the missing-template
\* error that carries the configuration path, without a warning; load had
\* returned that configuration.
C8_TemplatePriority ==
    (pc = "resolved") =>
        /\ loaded.ok
        /\ IsSome(loaded.val.template) =>
            /\ resolved = Ok(Unwrap(loaded.val.template))
            /\ C8WarnCalls = 0
        /\ (loaded.val.template = None /\ IsSome(NewTemplate(loaded.val.new))) =>
            \A nt \in {Unwrap(NewTemplate(loaded.val.new))} :
                /\ C8WarnCalls = 1
                /\ shell.accepts => shell.out[Len(shell.out)] = DeprecationWarning
                /\ resolved.ok <=>
                    (shell.accepts /\ C8SrcAvailable(nt) /\ C8DependenciesAvailable(nt))
                /\ resolved.ok => C8Translated(nt, resolved.val)
                /\ ~resolved.ok => resolved.err.kind # "MissingTemplate"
        /\ (loaded.val.template = None /\ NewTemplate(loaded.val.new) = None) =>
            /\ resolved = Err([kind |-> "MissingTemplate", path |-> configPath.val])
            /\ C8WarnCalls = 0

C8_Witness ==
    /\ pc = "resolved"
    /\ IsSome(content.doc.template) /\ IsSome(content.doc.new)
    /\ IsSome(NewTemplate(loaded.val.new))
    /\ resolved = Ok(Unwrap(loaded.val.template))
    /\ shell.calls = 0

(***************************************************************************)
(* C9                                                                      *)
(***************************************************************************)
\* the search ran: locate without explicit path, load_for_package for a
\* package whose metadata were read and name no configuration
C9Searched ==
    /\ entry \in {"locate", "load_for_package"}
    /\ cli = None
    /\ ~(~configPath.ok /\ configPath.err.kind = "Metadata")
C9Ancestor(n) == SubSeq(cwd.comps, 1, n)
\* the directories of the chain that hold the file, by their depth
C9Holders == {n \in 0..Len(cwd.comps) : C9Ancestor(n) \o <<"compete.toml">> \in fs}
C9FileIn(n) ==
    [abs |-> TRUE, comps |-> C9Ancestor(n) \o <<"compete.toml">>, utf8 |-> cwd.utf8]
C9NotFound == Err([kind |-> "NotFound", root |-> cwd])

\* C9: the searches of locate and load_for_package find compete.toml in the
\* deepest directory of the chain from the start directory to the root that
\* holds it, and fail with the not-found error, which carries the start
\* directory, exactly when no directory of the chain holds it.  locate
\* returns the path found (the non-UTF-8 error when the path is not UTF-8);
\* load_for_package loads it and returns it with the configuration.
C9_NearestAncestorWins ==
    C9Searched =>
        /\ (C9Holders = {}) <=> (configPath = C9NotFound)
        /\ (C9Holders = {}) => located = C9NotFound
        /\ \A n \in C9Holders :
            (\A m \in C9Holders : m <= n) =>
                /\ configPath = Ok(C9FileIn(n))
                /\ entry = "locate" =>
                    located = (IF cwd.utf8 THEN Ok(C9FileIn(n))
                               ELSE Err([kind |-> "NonUtf8", root |-> cwd]))
                /\ (entry = "load_for_package" /\ loaded.ok) => located = Ok(C9FileIn(n))

C9_Witness ==
    /\ C9Searched
    /\ entry = "locate"
    /\ Cardinality(C9Holders) >= 2
    /\ Len(cwd.comps) \in C9Holders
    /\ located = Ok(C9FileIn(Len(cwd.comps)))

(***************************************************************************)
(* C10                                                                     *)
(***************************************************************************)
\* the components of the working directory joined with an explicit path
C10Joined(p) ==
    IF p.abs THEN p.comps
    ELSE cwd.comps \o (IF p.comps # <<>> /\ p.comps[1] = "." THEN Tail(p.comps)
                       ELSE p.comps)

\* C10: with an explicit path, locate returns the working directory joined
\* with the path less one leading "." (the non-UTF-8 error when that is
\* not UTF-8), whatever the file system holds: never the not-found error.
C10_ExplicitPathJoined ==
    (entry = "locate" /\ IsSome(cli)) =>
        /\ configPath.ok
        /\ configPath.val.abs
        /\ configPath.val.comps = C10Joined(Unwrap(cli))
        /\ located = (IF configPath.val.utf8 THEN configPath
                      ELSE Err([kind |-> "NonUtf8", root |-> cwd]))
        /\ located.ok \/ located.err.kind # "NotFound"

C10_Witness ==
    /\ entry = "locate" /\ IsSome(cli)
    /\ Unwrap(cli).comps = <<".", "x.toml">>
    /\ located.ok
    /\ located.val.comps = cwd.comps \o <<"x.toml">>
    /\ located.val.comps \notin fs
    /\ cwd.comps \o <<"compete.toml">> \in fs

(***************************************************************************)
(* C11 is not stated: the scaffold that generate renders,                  *)
(* resources/compete.toml.liquid, is not part of the source modelled here. *)
(***************************************************************************)

(***************************************************************************)
(* C12                                                                     *)
(***************************************************************************)
\* the kebab-case form of the texts of RenderTexts
C12KebabForm(text) ==
    CASE text = <<"F", "o", "o", "B", "a", "r", "B", "a", "z">>
            -> <<"f", "o", "o", "-", "b", "a", "r", "-", "b", "a", "z">>
      [] text = <<"f", "o", "o", "-", "b", "a", "r">> -> <<"f", "o", "o", "-", "b", "a", "r">>
      [] text = <<"f", "o", "o", "_", "B", "a", "r">> -> <<"f", "o", "o", "-", "b", "a", "r">>
      [] text = <<"F", "B", "a", "r">> -> <<"f", "-", "b", "a", "r">>
      [] text = <<"F", "B">> -> <<"f", "b">>
      [] text = <<" ", "a", "B", " ">> -> <<"a", "-", "b">>
      [] OTHER -> <<>>

\* C12: liquid_template_with_custom_filter compiles {{ s | kebabcase }};
\* every rendering of the compiled template against a context that binds s
\* to a text is the kebab-case form of the text ("foo-bar-baz" for
\* "FooBarBaz"); and the renderings of one compiled template are a function
\* of the text: rendering again with the same context gives the same output.
C12_KebabcaseFilter ==
    (entry = "liquid_template_with_custom_filter") =>
        /\ compiled.text = SrcKebab =>
            /\ compiled.res.ok
            /\ \A r \in rendered : r.out = Ok(C12KebabForm(r.s))
        /\ \A p \in rendered : \A q \in rendered : p.s = q.s => p.out = q.out

C12_Witness ==
    /\ entry = "liquid_template_with_custom_filter"
    /\ compiled.text = SrcKebab
    /\ [s |-> <<"F", "o", "o", "B", "a", "r", "B", "a", "z">>,
        out |-> Ok(<<"f", "o", "o", "-", "b", "a", "r", "-", "b", "a", "z">>)] \in rendered
    /\ Cardinality(rendered) >= 2

(***************************************************************************)
(* C13                                                                     *)
(***************************************************************************)
\* a field of `add`, or the template field of the kind of `submit`, uses
\* the kebabcase filter
C13AddUsesKebabcase(b) ==
    Some(SrcKebab) \in {b.url, b.bin_name, b.bin_alias, b.bin_src_path}
C13SubmitUsesKebabcase(b) ==
    \/ b.kind = Some("file") /\ b.path = Some(SrcKebab)
    \/ /\ b.kind = Some("command")
       /\ IsSome(b.args)
       /\ \E i \in 1..Len(Unwrap(b.args)) : Unwrap(b.args)[i] = SrcKebab
\* test-suite, new.path and new.url are read, and one of them uses the filter
C13CustomUsesKebabcase(doc) ==
    /\ OnlyNew(doc)
    /\ doc.new = None \/ C1OjApi(Unwrap(doc.new)) \/ C1Legacy(Unwrap(doc.new))
    /\ \/ doc.test_suite = Some(SrcKebab)
       \/ IsSome(doc.new) /\ Unwrap(doc.new).path = Some(SrcKebab)
       \/ IsSome(doc.new) /\ Unwrap(doc.new).url = Some(SrcKebab)

\* C13: a document that uses the kebabcase filter in a field of `add`, in
\* submit.path or in an element of submit.args is not deserialized; a
\* document that uses it in test-suite, new.path or new.url, and is valid
\* otherwise, is.
C13_KebabcaseOnlyInCustomFields ==
    (entry = "load" /\ FromDocument) =>
        /\ (IsSome(content.doc.add) /\ C13AddUsesKebabcase(Unwrap(content.doc.add)))
            => ~Deserialized
        /\ (IsSome(content.doc.submit)
                /\ C13SubmitUsesKebabcase(Unwrap(content.doc.submit)))
            => ~Deserialized
        /\ C13CustomUsesKebabcase(content.doc) => Deserialized

====
